---- MODULE Spec2Model ----
(***************************************************************************)
(* Model of the cloudtunnel command line (src/src/cli.ts): the config      *)
(* store (loadConfig / saveConfig over one JSON file), and the commands    *)
(* login, init, add-service, list-services, remove-service, run and stop   *)
(* run by separate invocations of the tool that share the config file,     *)
(* the certificate, the Cloudflare account and the daemon processes.       *)
(*                                                                         *)
(* Text that the code inspects character by character (hostnames, ports,   *)
(* target URLs) is a sequence of one-character strings.  A JavaScript      *)
(* object is a record; a property that is undefined is an absent field.    *)
(* The config file holds JSON text, modelled as the sequence of members    *)
(* JSON.stringify emits.                                                   *)
(***************************************************************************)
EXTENDS Integers, Sequences, FiniteSets, TLC

\* ------------------------------------------------------------------ bounds
MaxServices == 2
MaxCommands == 4

Procs == {"p1", "p2"}

\* --------------------------------------------------------------- text
LowerLetters ==
    {"a","b","c","d","e","f","g","h","i","j","k","l","m",
     "n","o","p","q","r","s","t","u","v","w","x","y","z"}
UpperLetters ==
    {"A","B","C","D","E","F","G","H","I","J","K","L","M",
     "N","O","P","Q","R","S","T","U","V","W","X","Y","Z"}
DigitChars == {"0","1","2","3","4","5","6","7","8","9"}
WhiteSpace == {" "}

IsLetter(c) == c \in LowerLetters \cup UpperLetters
IsAlnum(c)  == IsLetter(c) \/ c \in DigitChars

DigitValue(c) ==
    CASE c = "0" -> 0 [] c = "1" -> 1 [] c = "2" -> 2 [] c = "3" -> 3
      [] c = "4" -> 4 [] c = "5" -> 5 [] c = "6" -> 6 [] c = "7" -> 7
      [] c = "8" -> 8 [] c = "9" -> 9

\* Position of the first "." at or after i, or Len(s)+1 when there is none.
RECURSIVE NextDot(_, _)
NextDot(s, i) ==
    IF i > Len(s) THEN Len(s) + 1
    ELSE IF s[i] = "." THEN i
    ELSE NextDot(s, i + 1)

\* The pieces of s between dots ("a.co" -> <<"a", "co">>).
RECURSIVE SplitDots(_)
SplitDots(s) ==
    LET d == NextDot(s, 1)
    IN  IF d > Len(s) THEN << s >>
        ELSE << SubSeq(s, 1, d - 1) >> \o SplitDots(SubSeq(s, d + 1, Len(s)))

\* [a-zA-Z0-9]([a-zA-Z0-9-]{0,61}[a-zA-Z0-9])?
LabelMatches(l) ==
    /\ Len(l) >= 1
    /\ Len(l) <= 63
    /\ IsAlnum(l[1])
    /\ IsAlnum(l[Len(l)])
    /\ \A i \in 2..(Len(l) - 1) : IsAlnum(l[i]) \/ l[i] = "-"

\* [a-zA-Z]{2,}
TldMatches(l) ==
    /\ Len(l) >= 2
    /\ \A i \in 1..Len(l) : IsLetter(l[i])

\* /^([a-zA-Z0-9]([a-zA-Z0-9-]{0,61}[a-zA-Z0-9])?\.)+[a-zA-Z]{2,}$/.test(input)
hostnameRegex(input) ==
    LET labels == SplitDots(input)
    IN  /\ Len(labels) >= 2
        /\ TldMatches(labels[Len(labels)])
        /\ \A i \in 1..(Len(labels) - 1) : LabelMatches(labels[i])

NaN == [nan |-> TRUE, n |-> 0]

RECURSIVE SkipWhiteSpace(_)
SkipWhiteSpace(s) ==
    IF s # << >> /\ Head(s) \in WhiteSpace THEN SkipWhiteSpace(Tail(s)) ELSE s

\* Value of the longest prefix of decimal digits of s, given the value acc
\* of the digits already consumed.
RECURSIVE DigitsValue(_, _)
DigitsValue(s, acc) ==
    IF s # << >> /\ Head(s) \in DigitChars
    THEN DigitsValue(Tail(s), acc * 10 + DigitValue(Head(s)))
    ELSE acc

\* parseInt(input, 10): leading white space is skipped, one sign is read,
\* then the longest run of digits; NaN when that run is empty.
parseInt(input) ==
    LET t    == SkipWhiteSpace(input)
        neg  == t # << >> /\ Head(t) = "-"
        body == IF t # << >> /\ Head(t) \in {"-", "+"} THEN Tail(t) ELSE t
    IN  IF body = << >> \/ Head(body) \notin DigitChars THEN NaN
        ELSE [nan |-> FALSE,
              n   |-> IF neg THEN 0 - DigitsValue(body, 0)
                             ELSE DigitsValue(body, 0)]

\* ------------------------------------------------------------ the config
\* { tunnelName: "", tunnelId: "", services: [] }
EmptyConfig == [tunnelName |-> "", tunnelId |-> "", services |-> << >>]

\* No config object is held (the invocation has not loaded one).
NoConfig == [none |-> TRUE]

\* config.tunnelId as the code reads it: undefined when the field is absent;
\* "" stands for every falsy value.
tunnelIdOf(c) == IF "tunnelId" \in DOMAIN c THEN c.tunnelId ELSE ""

\* JSONstringifyService writing only the properties the prompts asked for.
JSONstringifyServiceNoCreatedAt(s) ==
    LET m(k) == IF k \in DOMAIN s THEN << [key |-> k, str |-> s[k]] >> ELSE << >>
    IN  m("hostname") \o m("service")

\* JSON.stringify of one Service: a member per property, in property order.
JSONstringifyService(s) ==
    LET m(k) == IF k \in DOMAIN s THEN << [key |-> k, str |-> s[k]] >> ELSE << >>
    IN  m("hostname") \o m("service") \o m("createdAt")

\* JSON.stringify(config, null, 2)
JSONstringify(c) ==
    LET m(k) == IF k \in DOMAIN c THEN << [key |-> k, str |-> c[k]] >> ELSE << >>
        a(k) == IF k \in DOMAIN c
                THEN << [key |-> k,
                         arr |-> [i \in 1..Len(c[k]) |-> JSONstringifyService(c[k][i])]] >>
                ELSE << >>
    IN  m("tunnelName") \o m("tunnelId") \o a("services")

\* The value of member k of a JSON object text (the last one wins).
Member(ms, k) ==
    ms[CHOOSE i \in 1..Len(ms) :
          /\ ms[i].key = k
          /\ \A j \in (i + 1)..Len(ms) : ms[j].key # k]

Keys(ms) == {ms[i].key : i \in 1..Len(ms)}

JSONparseService(ms) == [k \in Keys(ms) |-> Member(ms, k).str]

\* JSON.parse of an object text.
JSONparse(ms) ==
    [k \in Keys(ms) |->
        IF "arr" \in DOMAIN Member(ms, k)
        THEN [i \in 1..Len(Member(ms, k).arr) |-> JSONparseService(Member(ms, k).arr[i])]
        ELSE Member(ms, k).str]

\* The config file: absent, text that is not JSON, or JSON text.
FileMissing   == [kind |-> "missing"]
FileMalformed == [kind |-> "malformed"]
FileJson(ms)  == [kind |-> "json", text |-> ms]

\* loadConfig(): threw tells whether an error leaves the function, logged
\* whether the parse diagnostic was printed.
loadConfig(f) ==
    IF f.kind = "missing"
    THEN [threw |-> FALSE, logged |-> FALSE, value |-> EmptyConfig]
    ELSE IF f.kind = "malformed"
    THEN [threw |-> FALSE, logged |-> TRUE, value |-> EmptyConfig]
    ELSE [threw |-> FALSE, logged |-> FALSE, value |-> JSONparse(f.text)]

\* saveConfig writing the service list alone.
saveConfigServicesOnly(c) ==
    FileJson(<< [key |-> "services",
                 arr |-> [i \in 1..Len(c.services) |->
                             JSONstringifyService(c.services[i])]] >>)

\* saveConfig(config): the content of the file after the write.
saveConfig(c) == FileJson(JSONstringify(c))

\* ---------------------------------------------------------------- inputs
\* What the operator may type at the hostname prompt.
HostnameInputs ==
    { <<"a", ".", "c", "o">>,
      <<"A", ".", "c", "o">>,
      << >>,
      <<"a">>,
      <<"-", ".", "c", "o">> }

\* What the operator may type at the port prompt.
PortInputs ==
    { <<"8", "0">>, <<"8", "0", "x">>, <<"0">>, <<"x">>,
      <<"6", "5", "5", "3", "6">> }

\* The protocol list prompt: its default value.  The other value, https, is
\* written into the target URL the same way.
Protocols == { <<"h", "t", "t", "p">> }

\* What the operator may type at the tunnel name prompt.
NameInputs == {"t1", "t2"}

\* The ids the Cloudflare account hands out, in the order it hands them out.
TunnelIds == <<"abc", "def">>

\* The id the account gives the next tunnel it creates; "" when it has none left.
RECURSIVE nextTunnelId(_, _)
nextTunnelId(tunnels, i) ==
    IF i > Len(TunnelIds) THEN ""
    ELSE IF TunnelIds[i] \notin {t.id : t \in tunnels} THEN TunnelIds[i]
    ELSE nextTunnelId(tunnels, i + 1)

\* new Date().toISOString()
Timestamps == {"T1"}

\* The spelling of the words that can stand where the id is expected.
Spelling ==
    [w \in {"abc", "def", "t1", "t2"} |->
        CASE w = "abc" -> <<"a", "b", "c">>
          [] w = "def" -> <<"d", "e", "f">>
          [] w = "t1"  -> <<"t", "1">>
          [] w = "t2"  -> <<"t", "2">>]

\* [a-f0-9-]+ under the i flag, for a whole word.
IdPattern(w) ==
    /\ w \in DOMAIN Spelling
    /\ \A i \in 1..Len(Spelling[w]) :
           Spelling[w][i] \in {"a", "b", "c", "d", "e", "f",
                               "A", "B", "C", "D", "E", "F", "-"} \cup DigitChars

\* What `cloudflared tunnel create <name>` prints when it exits with 0, word
\* by word: the usual message, the message behind a notice, or a message
\* of another wording.
CreateOutputs(name, id) ==
    { <<"Created", "tunnel", name, "with", "id", id>>,
      <<"Notice", "Created", "tunnel", name, "with", "id", id, "Credentials", "file", id>>,
      <<"Tunnel", name, "created", id>> }

\* The match that always finds an id: the last word of the output when the
\* usual message is not there.
matchCreatedTunnelLastWord(output) ==
    LET ends == {j \in 3..(Len(output) - 2) :
                    /\ output[j] = "with"
                    /\ output[j + 1] = "id"
                    /\ IdPattern(output[j + 2])
                    /\ \E i \in 1..(j - 2) :
                           output[i] = "Created" /\ output[i + 1] = "tunnel"}
    IN  IF ends = {} THEN output[Len(output)]
        ELSE output[(CHOOSE j \in ends : \A k \in ends : k <= j) + 2]

\* The match that captures the word before "with id".
matchCreatedTunnelName(output) ==
    LET ends == {j \in 3..(Len(output) - 2) :
                    /\ output[j] = "with"
                    /\ output[j + 1] = "id"
                    /\ IdPattern(output[j + 2])
                    /\ \E i \in 1..(j - 2) :
                           output[i] = "Created" /\ output[i + 1] = "tunnel"}
    IN  IF ends = {} THEN ""
        ELSE output[(CHOOSE j \in ends : \A k \in ends : k <= j) - 1]

\* output.match(/Created tunnel .* with id ([a-f0-9-]+)/i): match[1], or ""
\* when there is no match.  The greedy .* takes the last "with id".
matchCreatedTunnel(output) ==
    LET ends == {j \in 3..(Len(output) - 2) :
                    /\ output[j] = "with"
                    /\ output[j + 1] = "id"
                    /\ IdPattern(output[j + 2])
                    /\ \E i \in 1..(j - 2) :
                           output[i] = "Created" /\ output[i + 1] = "tunnel"}
    IN  IF ends = {} THEN ""
        ELSE output[(CHOOSE j \in ends : \A k \in ends : k <= j) + 2]

\* ----------------------------------------------------------------- state
VARIABLES
    installed,   \* `cloudflared --version` succeeds
    cert,        \* ~/.cloudflared/cert.pem exists
    file,        \* content of the config file
    remote,      \* the tunnels of the Cloudflare account: records [id, name]
    pc,          \* position of each invocation inside its command
    config,      \* the config object each invocation holds in memory
    listing,     \* the tunnel list an init --use-existing has parsed
    force,       \* the --force option of the running command
    last,        \* the latest step: who took it, the message it printed,
                 \* and the exit code if it ended the command (-1 if not)
    lastSaved,   \* the object passed to the latest saveConfig call
    started,     \* how many commands have been started
    yml,         \* the daemon config files `run` has generated
    daemonOutput, \* what `cloudflared tunnel create` printed in the latest
                 \* step, << >> when that step did not call it
    platform,    \* process.platform
    processes,   \* the running daemon processes: records [pid, cmd]
    pid,         \* the process id each invocation holds: the child of a
                 \* foreground run, the process stop has picked; 0 if none
    observed,    \* what the latest step displayed or started beyond its
                 \* message
    \* -- the migration of a document (SpecMigrate)
    raw,         \* the document read from the file
    migrated,    \* the results of migrate applied to it again and again
    \* -- the reconciliation layer (SpecRecon)
    registry,    \* the multi-tunnel registry
    cloud,       \* the daemon's view: whether listing works, and the
                 \* connection count of every remote tunnel
    osProcs,     \* ids found in the command lines of local daemon processes
    cleanRun,    \* the clean command: its stage and what it saw
    probe        \* the latest tunnelStatus call and what it saw

cliVars == << installed, cert, file, remote, pc, config, listing, force, last,
              lastSaved, started, yml, daemonOutput, platform, processes, pid,
              observed >>
migrateVars == << raw, migrated >>
reconVars == << registry, cloud, osProcs, cleanRun, probe >>
vars == << cliVars, migrateVars, reconVars >>

env == << installed, cert, platform >>

\* process.platform: "win32" and one of the Unix-like values.
Platforms == {"win32", "linux"}

\* The latest step displayed and started nothing beyond its message.
NoObservation == [kind |-> "none"]

\* What execSync("cloudflared --version") can meet: the exit status of the
\* daemon, no such binary on the PATH, or the child ended by a signal.
versionProbe ==
    IF installed THEN {"exit_0"} ELSE {"exit_1", "not_found", "killed"}

\* checkCloudflaredInstalled that lets every error but the missing binary
\* leave the function.
checkCloudflaredInstalledOnlyNotFound(outcome) ==
    [threw |-> outcome \in {"exit_1", "killed"}, value |-> outcome = "exit_0"]

\* checkCloudflaredInstalled(): execSync throws unless the child exits with
\* status 0; threw tells whether an error leaves the function.
checkCloudflaredInstalled(outcome) ==
    [threw |-> FALSE, value |-> outcome = "exit_0"]

InitialFiles == {FileMissing, FileMalformed}

\* No command has run yet on this machine and account.
CliFresh ==
    /\ remote = {}
    /\ pc = [p \in Procs |-> "idle"]
    /\ config = [p \in Procs |-> NoConfig]
    /\ listing = [p \in Procs |-> {}]
    /\ force = [p \in Procs |-> FALSE]
    /\ last = [proc |-> "none", msg |-> "none", code |-> -1]
    /\ lastSaved = NoConfig
    /\ started = 0
    /\ yml = {}
    /\ daemonOutput = << >>
    /\ processes = {}
    /\ pid = [p \in Procs |-> 0]
    /\ observed = NoObservation

InitCli ==
    /\ installed \in BOOLEAN
    /\ cert \in BOOLEAN
    /\ file \in InitialFiles
    /\ platform = "linux"
    /\ CliFresh

\* The invocation ends: its memory is gone, its exit code is recorded.
Finish(p, code, msg) ==
    /\ pc' = [pc EXCEPT ![p] = "idle"]
    /\ config' = [config EXCEPT ![p] = NoConfig]
    /\ listing' = [listing EXCEPT ![p] = {}]
    /\ force' = [force EXCEPT ![p] = FALSE]
    /\ pid' = [pid EXCEPT ![p] = 0]
    /\ last' = [proc |-> p, msg |-> msg, code |-> code]
    /\ UNCHANGED << migrateVars, reconVars >>

\* The invocation goes on to position q holding config object c.
Goto(p, q, c, msg) ==
    /\ pc' = [pc EXCEPT ![p] = q]
    /\ config' = [config EXCEPT ![p] = c]
    /\ last' = [proc |-> p, msg |-> msg, code |-> -1]
    /\ UNCHANGED << migrateVars, reconVars >>

\* Save that first adds to c the services the file holds under hostnames c
\* does not have.
SaveMerging(c) ==
    LET onDisk == loadConfig(file).value.services
        mine   == {c.services[i].hostname : i \in 1..Len(c.services)}
        other(x) == x.hostname \notin mine
        merged == [c EXCEPT !.services = @ \o SelectSeq(onDisk, other)]
    IN  /\ file' = saveConfig(merged)
        /\ lastSaved' = c

\* saveConfig(c) by an invocation.
Save(c) ==
    /\ file' = saveConfig(c)
    /\ lastSaved' = c

NoSave == UNCHANGED << file, lastSaved >>

\* ------------------------------------------------------- command: init
\* config.tunnelName = name; config.tunnelId = id: an assignment creates the
\* property the object lacks.
setTunnel(c, name, id) ==
    IF {"tunnelName", "tunnelId"} \subseteq DOMAIN c
    THEN [c EXCEPT !.tunnelName = name, !.tunnelId = id]
    ELSE IF "services" \in DOMAIN c
    THEN [tunnelName |-> name, tunnelId |-> id, services |-> c.services]
    ELSE [tunnelName |-> name, tunnelId |-> id]

\* From the start of the action to the first prompt or daemon call.
InitStart(p) ==
    /\ pc[p] = "idle"
    /\ started < MaxCommands
    /\ started' = started + 1
    /\ UNCHANGED << env, remote, yml, processes >>
    /\ daemonOutput' = << >>
    /\ observed' = NoObservation
    /\ NoSave
    /\ \E useExisting \in BOOLEAN, f \in BOOLEAN :
         \E outcome \in versionProbe :
         IF checkCloudflaredInstalled(outcome).threw
         THEN Finish(p, 1, "uncaught_exception")
         ELSE IF ~checkCloudflaredInstalled(outcome).value
         THEN Finish(p, 1, "not_installed")
         ELSE IF ~cert THEN Finish(p, 1, "not_logged_in")
         ELSE LET c == loadConfig(file).value
              IN  /\ UNCHANGED << listing, force, pid >>
                  /\ IF tunnelIdOf(c) # "" /\ ~f /\ ~useExisting
                     THEN Goto(p, "init_keep", c, "already_initialized")
                     ELSE IF useExisting
                     THEN Goto(p, "init_list", c, "none")
                     ELSE Goto(p, "init_name", c, "none")

\* Answer to "Do you want to keep using this tunnel?".
InitKeepAnswer(p) ==
    /\ pc[p] = "init_keep"
    /\ UNCHANGED started
    /\ UNCHANGED << env, remote, yml, processes >>
    /\ daemonOutput' = << >>
    /\ observed' = NoObservation
    /\ NoSave
    /\ \E keepExisting \in BOOLEAN :
         IF keepExisting THEN Finish(p, 0, "keep_existing")
         ELSE /\ Goto(p, "init_name", config[p], "creating_instead")
              /\ UNCHANGED << listing, force, pid >>

\* `cloudflared tunnel list --output json` and JSON.parse of its output.
InitListTunnels(p) ==
    /\ pc[p] = "init_list"
    /\ UNCHANGED started
    /\ UNCHANGED << env, remote, yml, processes, force, pid >>
    /\ daemonOutput' = << >>
    /\ observed' = NoObservation
    /\ NoSave
    /\ \E listOk \in BOOLEAN :
         IF ~listOk
         THEN /\ Goto(p, "init_name", config[p], "list_error_fallback")
              /\ UNCHANGED listing
         ELSE IF remote = {}
         THEN /\ Goto(p, "init_createnew", config[p], "no_existing_tunnels")
              /\ UNCHANGED listing
         ELSE /\ Goto(p, "init_select", config[p], "none")
              /\ listing' = [listing EXCEPT ![p] = remote]

\* Answer to "Create a new tunnel?".
InitCreateNewAnswer(p) ==
    /\ pc[p] = "init_createnew"
    /\ UNCHANGED started
    /\ UNCHANGED << env, remote, yml, processes >>
    /\ daemonOutput' = << >>
    /\ observed' = NoObservation
    /\ NoSave
    /\ \E createNew \in BOOLEAN :
         IF ~createNew THEN Finish(p, 0, "none")
         ELSE /\ Goto(p, "init_name", config[p], "none")
              /\ UNCHANGED << listing, force, pid >>

\* Answer to "Select an existing tunnel to use:", then the save.
InitSelectExisting(p) ==
    /\ pc[p] = "init_select"
    /\ UNCHANGED started
    /\ UNCHANGED << env, remote, yml, processes >>
    /\ daemonOutput' = << >>
    /\ observed' = NoObservation
    /\ \E tunnel \in listing[p], interrupted \in BOOLEAN :
         LET c == setTunnel(config[p], tunnel.name, tunnel.id)
         IN  IF interrupted
             THEN /\ NoSave
                  /\ Finish(p, 130, "interrupted")
             ELSE /\ Save(c)
                  /\ Finish(p, 0, "now_using")

\* Answer to the tunnel name prompt, `cloudflared tunnel create`, the match
\* of its output and the save.
InitCreateTunnel(p) ==
    /\ pc[p] = "init_name"
    /\ UNCHANGED started
    /\ UNCHANGED << env, yml, processes >>
    /\ \E name \in NameInputs :
         \/ \* the daemon call throws
            /\ UNCHANGED remote
            /\ daemonOutput' = << >>
            /\ observed' = NoObservation
            /\ NoSave
            /\ Finish(p, 1, "create_error")
         \/ \* the daemon creates the tunnel
            /\ name \notin {t.name : t \in remote}
            /\ nextTunnelId(remote, 1) # ""
            /\ \E output \in CreateOutputs(name, nextTunnelId(remote, 1)),
                  interrupted \in BOOLEAN :
                 LET match == matchCreatedTunnel(output)
                 IN  /\ remote' = remote \cup {[id |-> nextTunnelId(remote, 1),
                                               name |-> name]}
                     /\ daemonOutput' = output
                     /\ observed' = NoObservation
                     /\ IF match = ""
                        THEN /\ NoSave
                             /\ Finish(p, 0, "unable_to_parse_id")
                        ELSE IF interrupted
                        THEN /\ NoSave
                             /\ Finish(p, 130, "interrupted")
                        ELSE /\ Save(setTunnel(config[p], name, match))
                             /\ Finish(p, 0, "tunnel_created")

\* ------------------------------------------------ command: add-service
\* validateHostname without the check against config.services.
validateHostnameNoDuplicateCheck(input, c) ==
    IF input = << >> THEN "hostname_empty"
    ELSE IF ~hostnameRegex(input) THEN "hostname_invalid"
    ELSE "ok"

\* validateHostname comparing the input with the target URL of each service.
validateHostnameWrongField(input, c) ==
    IF input = << >> THEN "hostname_empty"
    ELSE IF ~hostnameRegex(input) THEN "hostname_invalid"
    ELSE IF \E i \in 1..Len(c.services) : c.services[i].service = input
    THEN "hostname_already_configured"
    ELSE "ok"

\* The validate function of the hostname prompt: "ok" or the message shown.
validateHostname(input, c) ==
    IF input = << >> THEN "hostname_empty"
    ELSE IF ~hostnameRegex(input) THEN "hostname_invalid"
    ELSE IF \E i \in 1..Len(c.services) : c.services[i].hostname = input
    THEN "hostname_already_configured"
    ELSE "ok"

\* The validate function of the port prompt.
validatePort(input) ==
    LET portNum == parseInt(input)
    IN  IF portNum.nan \/ portNum.n <= 0 \/ portNum.n >= 65536
        THEN "port_invalid"
        ELSE "ok"

\* `${protocol}://localhost:${port}`
serviceUrl(protocol, port) ==
    protocol \o <<":", "/", "/", "l", "o", "c", "a", "l", "h", "o", "s", "t", ":">> \o port

\* From the start of the action to the first prompt.
AddServiceStart(p) ==
    /\ pc[p] = "idle"
    /\ started < MaxCommands
    /\ started' = started + 1
    /\ UNCHANGED << env, remote, yml, processes >>
    /\ daemonOutput' = << >>
    /\ observed' = NoObservation
    /\ NoSave
    /\ \E outcome \in versionProbe :
       IF checkCloudflaredInstalled(outcome).threw
       THEN Finish(p, 1, "uncaught_exception")
       ELSE IF ~checkCloudflaredInstalled(outcome).value
       THEN Finish(p, 1, "not_installed")
       ELSE IF ~cert THEN Finish(p, 1, "not_logged_in")
       ELSE LET c == loadConfig(file).value
            IN  IF tunnelIdOf(c) = "" THEN Finish(p, 0, "no_tunnel")
                ELSE IF "services" \notin DOMAIN c
                THEN \* config.services.length: TypeError in the async action
                     Finish(p, 1, "uncaught_exception")
                ELSE /\ Goto(p, "add_prompt", c, "none")
                     /\ UNCHANGED << listing, force, pid >>

\* One round of answers to the hostname, port and protocol prompts: a
\* rejected answer shows its message and asks again; accepted answers are
\* pushed to config.services and saved.
AddServicePrompt(p) ==
    /\ pc[p] = "add_prompt"
    /\ UNCHANGED << env, remote, yml, processes, started >>
    /\ daemonOutput' = << >>
    /\ observed' = NoObservation
    /\ \E hostname \in HostnameInputs :
         IF validateHostname(hostname, config[p]) # "ok"
         THEN /\ Goto(p, "add_prompt", config[p], validateHostname(hostname, config[p]))
              /\ UNCHANGED << listing, force, pid >>
              /\ NoSave
         ELSE \E port \in PortInputs :
              IF validatePort(port) # "ok"
              THEN /\ Goto(p, "add_prompt", config[p], validatePort(port))
                   /\ UNCHANGED << listing, force, pid >>
                   /\ NoSave
              ELSE \E protocol \in Protocols, now \in Timestamps,
                      interrupted \in BOOLEAN :
                   /\ Len(config[p].services) < MaxServices
                   /\ LET newService == [hostname |-> hostname,
                                         service |-> serviceUrl(protocol, port),
                                         createdAt |-> now]
                          c == [config[p] EXCEPT !.services = Append(@, newService)]
                      IN  IF interrupted
                          THEN /\ NoSave
                               /\ Finish(p, 130, "interrupted")
                          ELSE /\ Save(c)
                               /\ Goto(p, "add_dns", c, "service_added")
                               /\ UNCHANGED << listing, force, pid >>

\* AddServiceDnsRoute that takes the new service back out of the config and
\* fails when the route cannot be created.
AddServiceDnsRouteRollback(p) ==
    /\ pc[p] = "add_dns"
    /\ UNCHANGED started
    /\ UNCHANGED << env, remote, yml, processes >>
    /\ daemonOutput' = << >>
    /\ observed' = NoObservation
    /\ \E routed \in BOOLEAN :
         IF routed
         THEN /\ NoSave
              /\ Finish(p, 0, "dns_route_created")
         ELSE /\ Save([config[p] EXCEPT
                         !.services = SubSeq(@, 1, Len(@) - 1)])
              /\ Finish(p, 1, "dns_route_error")

\* `cloudflared tunnel route dns <id> <hostname>`; an error is only reported.
AddServiceDnsRoute(p) ==
    /\ pc[p] = "add_dns"
    /\ UNCHANGED started
    /\ UNCHANGED << env, remote, yml, processes >>
    /\ daemonOutput' = << >>
    /\ observed' = NoObservation
    /\ NoSave
    /\ \E routed \in BOOLEAN :
         IF routed THEN Finish(p, 0, "dns_route_created")
         ELSE Finish(p, 0, "dns_route_error")

\* --------------------------------------------- command: remove-service
\* !config.services || config.services.length === 0
noServices(c) == "services" \notin DOMAIN c \/ Len(c.services) = 0

\* services.splice(selectedIndex): the selected entry and all behind it go.
spliceToEnd(services, selectedIndex) ==
    SubSeq(services, 1, selectedIndex)

\* services.splice(selectedIndex, 1), with selectedIndex counted from 0.
splice(services, selectedIndex) ==
    SubSeq(services, 1, selectedIndex) \o
    SubSeq(services, selectedIndex + 2, Len(services))

\* From the start of the action to the selection prompt.
RemoveServiceStart(p) ==
    /\ pc[p] = "idle"
    /\ started < MaxCommands
    /\ started' = started + 1
    /\ UNCHANGED << env, remote, yml, processes >>
    /\ daemonOutput' = << >>
    /\ observed' = NoObservation
    /\ NoSave
    /\ \E f \in BOOLEAN :
         \E outcome \in versionProbe :
         IF checkCloudflaredInstalled(outcome).threw
         THEN Finish(p, 1, "uncaught_exception")
         ELSE IF ~checkCloudflaredInstalled(outcome).value
         THEN Finish(p, 1, "not_installed")
         ELSE LET c == loadConfig(file).value
              IN  IF tunnelIdOf(c) = "" THEN Finish(p, 0, "no_tunnel")
                  ELSE IF noServices(c) THEN Finish(p, 0, "no_services")
                  ELSE /\ Goto(p, "remove_select", c, "none")
                       /\ force' = [force EXCEPT ![p] = f]
                       /\ UNCHANGED << listing, pid >>

\* The selection, the confirmation unless --force, the splice and the save.
RemoveServiceChoose(p) ==
    /\ pc[p] = "remove_select"
    /\ UNCHANGED started
    /\ UNCHANGED << env, remote, yml, processes >>
    /\ daemonOutput' = << >>
    /\ observed' = NoObservation
    /\ \E selectedIndex \in 0..(Len(config[p].services) - 1),
          confirm \in BOOLEAN, interrupted \in BOOLEAN :
         IF ~force[p] /\ ~confirm
         THEN /\ NoSave
              /\ Finish(p, 0, "cancelled")
         ELSE IF interrupted
         THEN /\ NoSave
              /\ Finish(p, 130, "interrupted")
         ELSE /\ Save([config[p] EXCEPT !.services = splice(@, selectedIndex)])
              /\ Finish(p, 0, "service_removed")

\* ----------------------------------------------- command: list-services
\* The characters hostnames are made of, in the order the collation of
\* localeCompare gives them at its first level: punctuation, digits, letters.
CollationOrder ==
    << "-", ".", "0", "1", "2", "3", "4", "5", "6", "7", "8", "9",
       "a", "b", "c", "d", "e", "f", "g", "h", "i", "j", "k", "l", "m",
       "n", "o", "p", "q", "r", "s", "t", "u", "v", "w", "x", "y", "z" >>

UpperOrder ==
    << "A", "B", "C", "D", "E", "F", "G", "H", "I", "J", "K", "L", "M",
       "N", "O", "P", "Q", "R", "S", "T", "U", "V", "W", "X", "Y", "Z" >>

\* The first-level weight of a character: letters weigh the same in both cases.
primaryWeight(c) ==
    IF c \in UpperLetters
    THEN 12 + (CHOOSE i \in 1..26 : UpperOrder[i] = c)
    ELSE CHOOSE i \in 1..Len(CollationOrder) : CollationOrder[i] = c

\* The comparison of two texts by the weights w of their characters.
RECURSIVE compareBy(_, _, _)
compareBy(a, b, w) ==
    IF a = << >> /\ b = << >> THEN 0
    ELSE IF a = << >> THEN -1
    ELSE IF b = << >> THEN 1
    ELSE IF w[Head(a)] < w[Head(b)] THEN -1
    ELSE IF w[Head(a)] > w[Head(b)] THEN 1
    ELSE compareBy(Tail(a), Tail(b), w)

\* a.localeCompare(b): the first level decides; between texts equal there
\* the case does, a lower-case letter before its upper-case letter.
localeCompare(a, b) ==
    LET chars == {a[i] : i \in 1..Len(a)} \cup {b[i] : i \in 1..Len(b)}
        first == [c \in chars |-> primaryWeight(c)]
        third == [c \in chars |-> IF c \in UpperLetters THEN 1 ELSE 0]
    IN  IF compareBy(a, b, first) # 0 THEN compareBy(a, b, first)
        ELSE compareBy(a, b, third)

\* One service put into a list sorted by hostname, behind its equals.
RECURSIVE insertByHostname(_, _)
insertByHostname(srv, sorted) ==
    IF sorted = << >> THEN << srv >>
    ELSE IF localeCompare(Head(sorted).hostname, srv.hostname) <= 0
    THEN << Head(sorted) >> \o insertByHostname(srv, Tail(sorted))
    ELSE << srv >> \o sorted

\* [...services].sort((a, b) => a.hostname.localeCompare(b.hostname)):
\* a stable sort of a copy.
RECURSIVE sortedServices(_)
sortedServices(services) ==
    IF services = << >> THEN << >>
    ELSE insertByHostname(services[Len(services)],
                          sortedServices(SubSeq(services, 1, Len(services) - 1)))

\* The --json output with the services sorted as the formatted output is.
jsonOutputSorted(c) ==
    [kind |-> "json",
     tunnel |-> [name |-> IF "tunnelName" \in DOMAIN c THEN c.tunnelName ELSE "",
                 id |-> tunnelIdOf(c)],
     services |-> [i \in 1..Len(c.services) |->
                      JSONstringifyService(sortedServices(c.services)[i])]]

\* JSON.stringify({ tunnel: { name, id }, services: config.services }, null, 2)
jsonOutput(c) ==
    [kind |-> "json",
     tunnel |-> [name |-> IF "tunnelName" \in DOMAIN c THEN c.tunnelName ELSE "",
                 id |-> tunnelIdOf(c)],
     services |-> [i \in 1..Len(c.services) |->
                      JSONstringifyService(c.services[i])]]

\* The formatted output: one numbered line per service of the sorted copy.
formattedOutput(c) ==
    [kind |-> "formatted",
     lines |-> [i \in 1..Len(c.services) |->
                   [hostname |-> sortedServices(c.services)[i].hostname,
                    service |-> sortedServices(c.services)[i].service]]]

\* The whole action: it has no prompt and calls the daemon only for its version.
ListServices(p) ==
    /\ pc[p] = "idle"
    /\ started < MaxCommands
    /\ started' = started + 1
    /\ UNCHANGED << env, remote, yml, processes >>
    /\ daemonOutput' = << >>
    /\ NoSave
    /\ \E json \in BOOLEAN, outcome \in versionProbe :
         IF checkCloudflaredInstalled(outcome).threw
         THEN /\ Finish(p, 1, "uncaught_exception")
              /\ observed' = NoObservation
         ELSE IF ~checkCloudflaredInstalled(outcome).value
         THEN /\ Finish(p, 1, "not_installed")
              /\ observed' = NoObservation
         ELSE LET c == loadConfig(file).value
              IN  IF tunnelIdOf(c) = ""
                  THEN /\ Finish(p, 0, "no_tunnel")
                       /\ observed' = NoObservation
                  ELSE IF noServices(c)
                  THEN /\ Finish(p, 0, "no_services")
                       /\ observed' = NoObservation
                  ELSE /\ Finish(p, 0, "services_listed")
                       /\ observed' = IF json THEN jsonOutput(c)
                                              ELSE formattedOutput(c)

\* ------------------------------------------------------- command: login
\* From the start of the action to the overwrite prompt or the daemon call.
LoginStart(p) ==
    /\ pc[p] = "idle"
    /\ started < MaxCommands
    /\ started' = started + 1
    /\ UNCHANGED << env, remote, yml, processes >>
    /\ daemonOutput' = << >>
    /\ observed' = NoObservation
    /\ NoSave
    /\ \E f \in BOOLEAN :
         \E outcome \in versionProbe :
         IF checkCloudflaredInstalled(outcome).threw
         THEN Finish(p, 1, "uncaught_exception")
         ELSE IF ~checkCloudflaredInstalled(outcome).value
         THEN Finish(p, 1, "not_installed")
         ELSE /\ force' = [force EXCEPT ![p] = f]
              /\ UNCHANGED << listing, pid >>
              /\ IF cert /\ ~f
                 THEN Goto(p, "login_overwrite", config[p], "none")
                 ELSE Goto(p, "login_daemon", config[p], "none")

\* Answer to "Overwrite it?"; a yes removes the certificate.
LoginOverwriteAnswer(p) ==
    /\ pc[p] = "login_overwrite"
    /\ UNCHANGED << installed, platform, remote, yml, processes, started >>
    /\ daemonOutput' = << >>
    /\ observed' = NoObservation
    /\ NoSave
    /\ \E overwrite \in BOOLEAN :
         IF ~overwrite
         THEN /\ Finish(p, 0, "login_aborted")
              /\ UNCHANGED cert
         ELSE /\ Goto(p, "login_daemon", config[p], "none")
              /\ cert' = FALSE
              /\ UNCHANGED << listing, force, pid >>

\* `cloudflared tunnel login`, then the look for the certificate.
LoginDaemon(p) ==
    /\ pc[p] = "login_daemon"
    /\ UNCHANGED << installed, platform, remote, yml, processes, started >>
    /\ daemonOutput' = << >>
    /\ observed' = NoObservation
    /\ NoSave
    /\ \E threw \in BOOLEAN, written \in BOOLEAN :
         IF threw
         THEN /\ UNCHANGED cert
              /\ Finish(p, 1, "login_error")
         ELSE /\ cert' = (cert \/ written)
              /\ IF cert \/ written
                 THEN Finish(p, 0, "login_complete")
                 ELSE Finish(p, 1, "login_may_have_failed")

\* --------------------------------------------------------- command: run
\* The members of one ingress rule as YAML.stringify emits them.
YAMLstringifyRule(r) ==
    LET m(k) == IF k \in DOMAIN r THEN << [key |-> k, str |-> r[k]] >> ELSE << >>
    IN  m("hostname") \o m("service")

\* YAML.stringify(cloudflaredConfig)
YAMLstringify(o) ==
    << [key |-> "tunnel", str |-> o.tunnel],
       [key |-> "credentials", str |-> o.credentials],
       [key |-> "ingress",
        arr |-> [i \in 1..Len(o.ingress) |-> YAMLstringifyRule(o.ingress[i])]] >>

\* The catch-all rule: { service: "http_status:404" }.
catchAll ==
    [service |-> <<"h", "t", "t", "p", "_", "s", "t", "a", "t", "u", "s", ":",
                   "4", "0", "4">>]

\* ingressRules with the catch-all rule pushed before the rules of the services.
ingressRulesCatchAllFirst(services) ==
    << catchAll >> \o
    [i \in 1..Len(services) |-> [hostname |-> services[i].hostname,
                                 service |-> services[i].service]]

\* config.services.map(...) followed by the push of the catch-all rule.
ingressRules(services) ==
    [i \in 1..Len(services) |-> [hostname |-> services[i].hostname,
                                 service |-> services[i].service]]
    \o << catchAll >>

\* path.join(CONFIG_DIR, `${tunnelId}.json`)
credentialsPath(tunnelId) == << "CONFIG_DIR", tunnelId, "json" >>

\* path.join(CONFIG_DIR, `${tunnelId}.yml`)
configYamlPath(tunnelId) == << "CONFIG_DIR", tunnelId, "yml" >>

cloudflaredConfig(c) ==
    [tunnel |-> c.tunnelId,
     credentials |-> credentialsPath(c.tunnelId),
     ingress |-> ingressRules(c.services)]

\* fs.writeFileSync(path, text) on the generated config files.
writeYaml(files, path, text) ==
    {f \in files : f.path # path} \cup {[path |-> path, text |-> text]}

\* From the start of the action to the proceed prompt or the generation.
RunStart(p) ==
    /\ pc[p] = "idle"
    /\ started < MaxCommands
    /\ started' = started + 1
    /\ UNCHANGED << env, remote, yml, processes >>
    /\ daemonOutput' = << >>
    /\ observed' = NoObservation
    /\ NoSave
    /\ \E outcome \in versionProbe :
       IF checkCloudflaredInstalled(outcome).threw
       THEN Finish(p, 1, "uncaught_exception")
       ELSE IF ~checkCloudflaredInstalled(outcome).value
       THEN Finish(p, 1, "not_installed")
       ELSE IF ~cert THEN Finish(p, 1, "not_logged_in")
       ELSE LET c == loadConfig(file).value
            IN  IF tunnelIdOf(c) = "" THEN Finish(p, 0, "no_tunnel")
                ELSE /\ UNCHANGED << listing, force, pid >>
                     /\ IF noServices(c)
                        THEN Goto(p, "run_proceed", c, "no_services_warning")
                        ELSE Goto(p, "run_generate", c, "none")

\* Answer to "Do you want to continue running the tunnel without any services?".
RunProceedAnswer(p) ==
    /\ pc[p] = "run_proceed"
    /\ UNCHANGED << env, remote, yml, processes, started >>
    /\ daemonOutput' = << >>
    /\ observed' = NoObservation
    /\ NoSave
    /\ \E proceed \in BOOLEAN :
         IF ~proceed THEN Finish(p, 0, "startup_cancelled")
         ELSE /\ Goto(p, "run_generate", config[p], "none")
              /\ UNCHANGED << listing, force, pid >>

\* fs.existsSync(configYamlPath) ? `cloudflared tunnel --config ${path} run`
\*                                : `cloudflared tunnel run ${tunnelId}`
runCommand(files, tunnelId) ==
    IF \E f \in files : f.path = configYamlPath(tunnelId)
    THEN [exe |-> "cloudflared tunnel", config |-> configYamlPath(tunnelId)]
    ELSE [exe |-> "cloudflared tunnel", run |-> tunnelId]

\* The process id the system gives a new process: one no listed process has.
nextPid(procs) ==
    IF procs = {} THEN 1
    ELSE 1 + (CHOOSE n \in {q.pid : q \in procs} :
                 \A m \in {q.pid : q \in procs} : m <= n)

\* The generation of the daemon config file, the choice of the command and
\* the start of the daemon: detached, or as a child the action waits for.
RunTunnel(p) ==
    /\ pc[p] = "run_generate"
    /\ UNCHANGED << env, remote, started >>
    /\ daemonOutput' = << >>
    /\ NoSave
    /\ \E written \in BOOLEAN, detach \in BOOLEAN :
         LET generated == written /\ "services" \in DOMAIN config[p]
             files == IF generated
                      THEN writeYaml(yml, configYamlPath(config[p].tunnelId),
                                     YAMLstringify(cloudflaredConfig(config[p])))
                      ELSE yml
             command == runCommand(files, config[p].tunnelId)
             child == nextPid(processes)
         IN  /\ yml' = files
             /\ observed' = [kind |-> "run", generated |-> generated,
                             command |-> command]
             /\ processes' = processes \cup {[pid |-> child, cmd |-> command]}
             /\ IF detach THEN Finish(p, 0, "running_in_background")
                ELSE /\ Goto(p, "run_foreground", config[p], "running_in_foreground")
                     /\ pid' = [pid EXCEPT ![p] = child]
                     /\ UNCHANGED << listing, force >>

\* execSync(runCommand) returns or throws: the daemon has ended by itself,
\* was ended by another invocation, or the operator pressed Ctrl+C, which
\* reaches the daemon and the tool alike.
RunForegroundEnd(p) ==
    /\ pc[p] = "run_foreground"
    /\ UNCHANGED << env, remote, yml, started >>
    /\ daemonOutput' = << >>
    /\ NoSave
    /\ processes' = {q \in processes : q.pid # pid[p]}
    /\ IF pid[p] \notin {q.pid : q \in processes}
       THEN /\ observed' = [kind |-> "daemon_end", cause |-> "killed"]
            /\ Finish(p, 0, "error_running_tunnel")
       ELSE \E cause \in {"exit_0", "exit_1", "interrupt"} :
            /\ observed' = [kind |-> "daemon_end", cause |-> cause]
            /\ IF cause = "exit_0" THEN Finish(p, 0, "tunnel_ended")
               ELSE IF cause = "exit_1" THEN Finish(p, 0, "error_running_tunnel")
               ELSE \E ending \in {"daemon_exits_0", "daemon_signalled",
                                   "tool_signalled"} :
                    IF ending = "daemon_exits_0" THEN Finish(p, 0, "tunnel_ended")
                    ELSE IF ending = "daemon_signalled"
                    THEN Finish(p, 0, "error_running_tunnel")
                    ELSE Finish(p, 130, "ended_by_signal")

\* -------------------------------------------------------- command: stop
\* grep "cloudflared tunnel.*${tunnelId}" on one command line of `ps aux`:
\* the id stands in the path of the config file or is the last argument.
\* Ids have one length, so one id is found inside another only if equal.
grepTunnel(cmd, tunnelId) ==
    IF "config" \in DOMAIN cmd THEN cmd.config[2] = tunnelId
    ELSE cmd.run = tunnelId

\* The processes whose line the platform's listing command returns:
\* tasklist /FI "IMAGENAME eq cloudflared.exe" on win32, ps | grep otherwise.
processInfo(os, procs, tunnelId) ==
    IF os = "win32" THEN procs
    ELSE {q \in procs : grepTunnel(q.cmd, tunnelId)}

\* kill / taskkill of one pid: it throws when the process is gone or cannot
\* be signalled.
Kill(p, target, f, killed) ==
    /\ observed' = [kind |-> "kill", pid |-> target, force |-> f]
    /\ IF killed /\ target \in {q.pid : q \in processes}
       THEN /\ processes' = {q \in processes : q.pid # target}
            /\ Finish(p, 0, "tunnel_stopped")
       ELSE /\ UNCHANGED processes
            /\ Finish(p, 0, "error_stopping_tunnel")

\* From the start of the action to the confirmation or the kill.  The pid
\* is read from the first line of the listing, whose order the system decides.
StopStart(p) ==
    /\ pc[p] = "idle"
    /\ started < MaxCommands
    /\ started' = started + 1
    /\ UNCHANGED << env, remote, yml >>
    /\ daemonOutput' = << >>
    /\ NoSave
    /\ \E f \in BOOLEAN, killed \in BOOLEAN :
         \E outcome \in versionProbe :
         IF checkCloudflaredInstalled(outcome).threw
         THEN /\ Finish(p, 1, "uncaught_exception")
              /\ observed' = NoObservation
              /\ UNCHANGED processes
         ELSE IF ~checkCloudflaredInstalled(outcome).value
         THEN /\ Finish(p, 1, "not_installed")
              /\ observed' = NoObservation
              /\ UNCHANGED processes
         ELSE LET c == loadConfig(file).value
                  found == processInfo(platform, processes, tunnelIdOf(c))
              IN  IF tunnelIdOf(c) = ""
                  THEN /\ Finish(p, 0, "no_tunnel")
                       /\ observed' = NoObservation
                       /\ UNCHANGED processes
                  ELSE IF found = {}
                  THEN /\ Finish(p, 0, "no_process_found")
                       /\ observed' = NoObservation
                       /\ UNCHANGED processes
                  ELSE \E first \in found :
                       IF ~f
                       THEN /\ Goto(p, "stop_confirm", c, "found_process")
                            /\ pid' = [pid EXCEPT ![p] = first.pid]
                            /\ observed' = NoObservation
                            /\ UNCHANGED << listing, force, processes >>
                       ELSE Kill(p, first.pid, TRUE, killed)

\* Answer to "Found tunnel process. Stop it?", then the kill.
StopConfirmAnswer(p) ==
    /\ pc[p] = "stop_confirm"
    /\ UNCHANGED << env, remote, yml, started >>
    /\ daemonOutput' = << >>
    /\ NoSave
    /\ \E confirm \in BOOLEAN, killed \in BOOLEAN :
         IF ~confirm
         THEN /\ Finish(p, 0, "cancelled")
              /\ observed' = NoObservation
              /\ UNCHANGED processes
         ELSE Kill(p, pid[p], FALSE, killed)

\* ------------------------------------------------- the schema, migrate
\* The schema version the documentation gives for the config file.
CurrentVersion == "2.0.0"

\* Top-level tunnelId, tunnelName and services, and no tunnels map.
isLegacyShape(doc) ==
    /\ {"tunnelId", "tunnelName", "services"} \subseteq DOMAIN doc
    /\ "tunnels" \notin DOMAIN doc

\* A registry: version, tunnels, and activeTunnel when a is not "".
Registry(version, tunnels, a) ==
    IF a = ""
    THEN [version |-> version, tunnels |-> tunnels]
    ELSE [version |-> version, tunnels |-> tunnels, activeTunnel |-> a]

activeTunnelOf(reg) == IF "activeTunnel" \in DOMAIN reg THEN reg.activeTunnel ELSE ""

\* migrate that takes every document for one written by the latest release.
migrateKeepsVersion(doc) ==
    IF isLegacyShape(doc)
    THEN Registry("1.5.3", (doc.tunnelId :> [tunnelName |-> doc.tunnelName,
                                             tunnelId |-> doc.tunnelId,
                                             services |-> doc.services]),
                  doc.tunnelId)
    ELSE Registry(IF doc.version = "1.5.3" THEN "1.9.0" ELSE CurrentVersion,
                  doc.tunnels, activeTunnelOf(doc))

\* migrate(raw): a legacy document becomes a registry whose only tunnel is
\* the legacy one, active; a registry is brought to the current version.
migrate(doc) ==
    IF isLegacyShape(doc)
    THEN Registry(CurrentVersion,
                  (doc.tunnelId :> [tunnelName |-> doc.tunnelName,
                                    tunnelId |-> doc.tunnelId,
                                    services |-> doc.services]),
                  doc.tunnelId)
    ELSE Registry(CurrentVersion, doc.tunnels, activeTunnelOf(doc))

MaxMigrations == 2

TunnelIdSet == {TunnelIds[i] : i \in 1..Len(TunnelIds)}

SampleServices ==
    LET a == [hostname |-> <<"a", ".", "c", "o">>,
              service |-> serviceUrl(<<"h", "t", "t", "p">>, <<"8", "0">>),
              createdAt |-> "T1"]
        b == [hostname |-> <<"A", ".", "c", "o">>,
              service |-> serviceUrl(<<"h", "t", "t", "p", "s">>, <<"8", "0">>),
              createdAt |-> "T1"]
    IN  { << >>, << a >>, << a, b >>, << b, a >> }

LegacyDocuments ==
    { [tunnelName |-> n, tunnelId |-> i, services |-> ss] :
        n \in NameInputs, i \in TunnelIdSet, ss \in SampleServices }

\* Registries of any version whose active tunnel, if any, is one of theirs.
RegistryDocuments ==
    { r \in { Registry(v, [i \in ids |-> [tunnelName |-> "t1", tunnelId |-> i,
                                          services |-> ss]], a) :
                v \in {CurrentVersion, "1.9.0"}, ids \in SUBSET TunnelIdSet,
                ss \in SampleServices, a \in TunnelIdSet \cup {""} } :
        activeTunnelOf(r) \in DOMAIN r.tunnels \cup {""} }

\* migrate applied to the latest result (to the document the first time).
Migrate ==
    /\ Len(migrated) < MaxMigrations
    /\ migrated' = Append(migrated,
                          migrate(IF migrated = << >> THEN raw
                                  ELSE migrated[Len(migrated)]))
    /\ UNCHANGED << raw, cliVars, reconVars >>

\* ------------------------------------------------ reconciliation layer
MaxConnections == 1

\* listRemoteTunnels(): the connection count of every remote tunnel, or a
\* failure.
listRemoteTunnels(cl) ==
    IF cl.ok THEN [failed |-> FALSE, tunnels |-> cl.tunnels]
    ELSE [failed |-> TRUE, tunnels |-> << >>]

\* tunnelStatus that takes a failed listing for a tunnel without connections.
tunnelStatusIgnoresFailure(tunnelId, cl, procs) ==
    LET l == listRemoteTunnels(cl)
    IN  IF ~l.failed /\ tunnelId \in DOMAIN l.tunnels /\ l.tunnels[tunnelId] >= 1
        THEN "running"
        ELSE IF tunnelId \in procs THEN "running"
        ELSE "stopped"

\* tunnelStatus(tunnelId): the remote listing first, the local process scan
\* when the listing shows no connection.
tunnelStatus(tunnelId, cl, procs) ==
    LET l == listRemoteTunnels(cl)
    IN  IF l.failed THEN "unknown"
        ELSE IF tunnelId \in DOMAIN l.tunnels /\ l.tunnels[tunnelId] >= 1
        THEN "running"
        ELSE IF tunnelId \in procs THEN "running"
        ELSE "stopped"

\* cleanCandidates that also takes a tunnel without connections for invalid.
cleanCandidatesUnconnected(reg, listed) ==
    {id \in DOMAIN reg.tunnels : id \notin DOMAIN listed \/ listed[id] = 0}

\* clean, the diff: the local tunnel ids absent from the remote listing.
cleanCandidates(reg, listed) ==
    {id \in DOMAIN reg.tunnels : id \notin DOMAIN listed}

\* removeTunnels that leaves activeTunnel as it is.
removeTunnelsKeepsActive(reg, ids) ==
    Registry(reg.version,
             [id \in DOMAIN reg.tunnels \ ids |-> reg.tunnels[id]],
             activeTunnelOf(reg))

\* clean, the mutation: the tunnels are removed, and activeTunnel is cleared
\* when the active tunnel is one of them.
removeTunnels(reg, ids) ==
    Registry(reg.version,
             [id \in DOMAIN reg.tunnels \ ids |-> reg.tunnels[id]],
             IF activeTunnelOf(reg) \in ids THEN "" ELSE activeTunnelOf(reg))

NoCleanRun == [stage |-> "none"]
NoProbe == [id |-> ""]

\* The registries clean may find: current version, any tunnels, the active
\* tunnel absent or one of them.
Registries ==
    { r \in { Registry(CurrentVersion,
                       [i \in ids |-> [tunnelName |-> "t1", tunnelId |-> i,
                                       services |-> << >>]], a) :
                ids \in SUBSET TunnelIdSet, a \in TunnelIdSet \cup {""} } :
        activeTunnelOf(r) \in DOMAIN r.tunnels \cup {""} }

Clouds ==
    { [ok |-> ok, tunnels |-> t] :
        ok \in BOOLEAN,
        t \in UNION { [ids -> 0..MaxConnections] : ids \in SUBSET TunnelIdSet } }

\* The account or the local processes change outside the tool.
Drift ==
    /\ \/ cloud' \in Clouds /\ osProcs' = osProcs
       \/ osProcs' \in SUBSET TunnelIdSet /\ cloud' = cloud
    /\ UNCHANGED << registry, cleanRun, probe, cliVars, migrateVars >>

\* switch: the active tunnel becomes another tunnel of the registry.
Switch ==
    /\ cleanRun.stage # "scanned"
    /\ \E id \in DOMAIN registry.tunnels :
         registry' = Registry(registry.version, registry.tunnels, id)
    /\ cleanRun' = NoCleanRun
    /\ UNCHANGED << cloud, osProcs, probe, cliVars, migrateVars >>

\* clean up to its confirmation prompt: the listing and the diff.
CleanScan ==
    /\ cleanRun.stage # "scanned"
    /\ LET l == listRemoteTunnels(cloud)
       IN  IF l.failed
           THEN cleanRun' = [stage |-> "aborted", before |-> registry]
           ELSE cleanRun' =
                  [stage |-> IF cleanCandidates(registry, l.tunnels) = {}
                             THEN "nothing" ELSE "scanned",
                   before |-> registry,
                   listed |-> DOMAIN l.tunnels,
                   removable |-> cleanCandidates(registry, l.tunnels)]
    /\ UNCHANGED << registry, cloud, osProcs, probe, cliVars, migrateVars >>

\* The answer to clean's confirmation, and the removal.
CleanAnswer ==
    /\ cleanRun.stage = "scanned"
    /\ \E confirm \in BOOLEAN :
         IF confirm
         THEN /\ registry' = removeTunnels(registry, cleanRun.removable)
              /\ cleanRun' = [cleanRun EXCEPT !.stage = "confirmed"]
         ELSE /\ registry' = registry
              /\ cleanRun' = [cleanRun EXCEPT !.stage = "declined"]
    /\ UNCHANGED << cloud, osProcs, probe, cliVars, migrateVars >>

\* status: tunnelStatus of one tunnel of the registry.
TunnelStatus ==
    /\ \E id \in DOMAIN registry.tunnels :
         probe' = [id |-> id,
                   listFailed |-> ~cloud.ok,
                   connections |-> IF id \in DOMAIN cloud.tunnels
                                   THEN cloud.tunnels[id] ELSE 0,
                   processFound |-> id \in osProcs,
                   result |-> tunnelStatus(id, cloud, osProcs)]
    /\ UNCHANGED << registry, cloud, osProcs, cleanRun, cliVars, migrateVars >>

\* ------------------------------------------------------- specification
CliIdle ==
    /\ installed = FALSE
    /\ cert = FALSE
    /\ file = FileMissing
    /\ platform = "linux"
    /\ CliFresh

MigrateIdle ==
    /\ raw = EmptyConfig
    /\ migrated = << >>

ReconIdle ==
    /\ registry = Registry(CurrentVersion, << >>, "")
    /\ cloud = [ok |-> TRUE, tunnels |-> << >>]
    /\ osProcs = {}
    /\ cleanRun = NoCleanRun
    /\ probe = NoProbe

Init == InitCli /\ MigrateIdle /\ ReconIdle

Next ==
    \E p \in Procs :
        \/ InitStart(p)
        \/ InitKeepAnswer(p)
        \/ InitListTunnels(p)
        \/ InitCreateNewAnswer(p)
        \/ InitSelectExisting(p)
        \/ InitCreateTunnel(p)
        \/ AddServiceStart(p)
        \/ AddServicePrompt(p)
        \/ AddServiceDnsRoute(p)
        \/ RemoveServiceStart(p)
        \/ RemoveServiceChoose(p)
        \/ ListServices(p)
        \/ LoginStart(p)
        \/ LoginOverwriteAnswer(p)
        \/ LoginDaemon(p)
        \/ RunStart(p)
        \/ RunProceedAnswer(p)
        \/ RunTunnel(p)
        \/ RunForegroundEnd(p)
        \/ StopStart(p)
        \/ StopConfirmAnswer(p)

Spec == Init /\ [][Next]_vars

\* The commands on either platform, the daemon installed and logged in.
InitPlatforms ==
    /\ installed = TRUE
    /\ cert = TRUE
    /\ file \in InitialFiles
    /\ platform \in Platforms
    /\ CliFresh
    /\ MigrateIdle
    /\ ReconIdle

SpecPlatforms == InitPlatforms /\ [][Next]_vars

\* JSON documents the config file may hold when the first command runs: one
\* saveConfig wrote, the empty object, and one without the services property.
JsonDocuments ==
    { JSONstringify(EmptyConfig),
      << >>,
      << [key |-> "tunnelName", str |-> "t1"], [key |-> "tunnelId", str |-> "abc"] >> }

\* The commands over a config file that holds any of these documents.
InitLoad ==
    /\ installed = TRUE
    /\ cert = TRUE
    /\ file \in {FileJson(ms) : ms \in JsonDocuments}
    /\ platform = "linux"
    /\ CliFresh
    /\ MigrateIdle
    /\ ReconIdle

SpecLoad == InitLoad /\ [][Next]_vars

\* migrate as a function of the document.
InitMigrate ==
    /\ CliIdle
    /\ ReconIdle
    /\ raw \in LegacyDocuments \cup RegistryDocuments
    /\ migrated = << >>

NextMigrate == Migrate

SpecMigrate == InitMigrate /\ [][NextMigrate]_vars

\* The reconciliation layer over a registry, the account and the local
\* processes.
InitRecon ==
    /\ CliIdle
    /\ MigrateIdle
    /\ registry \in Registries
    /\ cloud \in Clouds
    /\ osProcs \in SUBSET TunnelIdSet
    /\ cleanRun = NoCleanRun
    /\ probe = NoProbe

NextRecon ==
    \/ Drift
    \/ Switch
    \/ CleanScan
    \/ CleanAnswer
    \/ TunnelStatus

SpecRecon == InitRecon /\ [][NextRecon]_vars

\* ---------------------------------------------------------------- claims
\* The registry the config file holds, as loadConfig returns it.
persisted == loadConfig(file).value

hostnamesOf(c) == {c.services[i].hostname : i \in 1..Len(c.services)}

\* C1: at the hostname prompt of add-service every hostname already in the
\* loaded service list is rejected as already configured; a step that shows
\* that rejection changes neither any in-memory config nor the config file
\* and asks again; and a step that goes on to the DNS route has appended
\* to the in-memory service list one service whose hostname was not in it.
C1_DuplicateHostnameRejected ==
    [][\A p \in Procs :
         pc[p] = "add_prompt" =>
           /\ \A h \in hostnamesOf(config[p]) :
                validateHostname(h, config[p]) = "hostname_already_configured"
           /\ (last'.proc = p /\ last'.msg = "hostname_already_configured") =>
                (config' = config /\ file' = file /\ pc' = pc)
           /\ pc'[p] = "add_dns" =>
                /\ Len(config'[p].services) = Len(config[p].services) + 1
                /\ SubSeq(config'[p].services, 1, Len(config[p].services))
                     = config[p].services
                /\ config'[p].services[Len(config'[p].services)].hostname
                     \notin hostnamesOf(config[p])]_vars

\* A duplicate hostname has just been rejected at the prompt.
C1_Witness ==
    \E p \in Procs :
        /\ pc[p] = "add_prompt"
        /\ last = [proc |-> p, msg |-> "hostname_already_configured", code |-> -1]
        /\ Len(config[p].services) >= 1
        /\ persisted.services = config[p].services

\* C2: the service list in the config file never holds two entries with the
\* same hostname, whatever the interleaving of the invocations.
C2_PersistedHostnamesUnique ==
    file.kind = "json" =>
        \A i, j \in 1..Len(persisted.services) :
            persisted.services[i].hostname = persisted.services[j].hostname => i = j

\* Two invocations loaded the same list, each added the same hostname and
\* each saved: the file holds that hostname once.
C2_Witness ==
    \E p, q \in Procs :
        /\ p # q
        /\ pc[p] = "add_dns"
        /\ pc[q] = "add_dns"
        /\ hostnamesOf(config[p]) = hostnamesOf(config[q])
        /\ Len(persisted.services) >= 1

\* C3: right after saveConfig(R), with no other write in between,
\* loadConfig() returns a value equal to R.
C3_SaveLoadRoundTrip ==
    lastSaved # NoConfig =>
        /\ ~loadConfig(file).threw
        /\ loadConfig(file).value = lastSaved

\* A registry with a tunnel and a service has been saved.
C3_Witness ==
    /\ lastSaved # NoConfig
    /\ tunnelIdOf(lastSaved) # ""
    /\ Len(lastSaved.services) >= 1

\* A fresh registry of the current schema: current version, no tunnels, no
\* active tunnel.
isFreshRegistry(c) ==
    /\ "version" \in DOMAIN c
    /\ c.version = CurrentVersion
    /\ "tunnels" \in DOMAIN c
    /\ DOMAIN c.tunnels = {}
    /\ "activeTunnel" \notin DOMAIN c

\* C4: when a command loads its config while the file is missing or
\* malformed, no error leaves loadConfig, the file is left as it is, and the
\* command holds a fresh empty registry of the current schema version.
C4_LoadFailsSoft ==
    [][\A p \in Procs :
         (pc[p] = "idle" /\ pc'[p] # "idle" /\ file.kind \in {"missing", "malformed"}) =>
           /\ ~loadConfig(file).threw
           /\ file' = file
           /\ isFreshRegistry(config'[p])]_vars

\* C5: when a command loads a document of the legacy shape, the registry it
\* holds is the multi-tunnel shape: current version, the legacy tunnel as the
\* only entry of tunnels under its id with its name and services, and
\* activeTunnel equal to that id.
C5_LegacyDocumentLifted ==
    [][\A p \in Procs :
         (/\ pc[p] = "idle" /\ pc'[p] # "idle"
          /\ file.kind = "json" /\ isLegacyShape(persisted)) =>
           /\ {"version", "activeTunnel", "tunnels"} \subseteq DOMAIN config'[p]
           /\ config'[p].version = CurrentVersion
           /\ config'[p].activeTunnel = persisted.tunnelId
           /\ DOMAIN config'[p].tunnels = {persisted.tunnelId}
           /\ config'[p].tunnels[persisted.tunnelId].tunnelId = persisted.tunnelId
           /\ config'[p].tunnels[persisted.tunnelId].tunnelName = persisted.tunnelName
           /\ config'[p].tunnels[persisted.tunnelId].services = persisted.services]_vars

\* C7: every document saveConfig has written carries the current schema
\* version and is not of the legacy shape.
C7_SavedDocumentIsCurrent ==
    file.kind = "json" =>
        /\ "version" \in Keys(file.text)
        /\ Member(file.text, "version").str = CurrentVersion
        /\ ~isLegacyShape(persisted)

\* C6: migrate applied to its own result returns that result, for legacy
\* documents and for registries alike, and migrate applied to a registry of
\* the current schema returns it unchanged.
C6_MigrateIdempotent ==
    /\ \A i \in 2..Len(migrated) : migrated[i] = migrated[1]
    /\ (Len(migrated) >= 1 /\ ~isLegacyShape(raw) /\ raw.version = CurrentVersion) =>
           migrated[1] = raw

\* A legacy document with services has been migrated twice.
C6_Witness ==
    /\ isLegacyShape(raw)
    /\ Len(raw.services) >= 1
    /\ Len(migrated) >= 2
    /\ migrated[1] # raw

\* C8: activeTunnel, when the registry has it, is a key of tunnels; and once
\* a confirmed clean has removed the tunnel that was active, the registry
\* has no activeTunnel.
C8_ActiveTunnelIntegrity ==
    /\ "activeTunnel" \in DOMAIN registry =>
           registry.activeTunnel \in DOMAIN registry.tunnels
    /\ (cleanRun.stage = "confirmed"
        /\ activeTunnelOf(cleanRun.before) \in cleanRun.removable) =>
           "activeTunnel" \notin DOMAIN registry

\* A confirmed clean has removed the active tunnel and kept another one.
C8_Witness ==
    /\ cleanRun.stage = "confirmed"
    /\ activeTunnelOf(cleanRun.before) \in cleanRun.removable
    /\ DOMAIN registry.tunnels # {}
    /\ "activeTunnel" \notin DOMAIN registry

\* C9: clean reports as removable exactly the local tunnel ids absent from
\* the remote listing; until the caller confirms, and when the caller
\* declines, the registry is as it was; after the confirmation the registry
\* holds exactly its former tunnels that are in the listing, unchanged.
C9_CleanRemovesOnlyOnConfirm ==
    /\ cleanRun.stage \in {"scanned", "confirmed", "declined", "nothing"} =>
           cleanRun.removable = DOMAIN cleanRun.before.tunnels \ cleanRun.listed
    /\ cleanRun.stage \in {"scanned", "declined", "nothing", "aborted"} =>
           registry = cleanRun.before
    /\ cleanRun.stage = "confirmed" =>
           /\ DOMAIN registry.tunnels =
                  DOMAIN cleanRun.before.tunnels \cap cleanRun.listed
           /\ \A id \in DOMAIN registry.tunnels :
                  registry.tunnels[id] = cleanRun.before.tunnels[id]

\* Of two local tunnels one is in the remote listing, without connections;
\* the confirmed clean removed the other.
C9_Witness ==
    /\ cleanRun.stage = "confirmed"
    /\ Cardinality(DOMAIN cleanRun.before.tunnels) = 2
    /\ Cardinality(cleanRun.removable) = 1
    /\ DOMAIN registry.tunnels = cleanRun.listed

\* C10: tunnelStatus answers "running" when the listing shows a connection
\* of the tunnel, "stopped" when the listing works, shows none and no local
\* process matches, "unknown" when the listing call fails; it answers with
\* one of the three in every case.
C10_TunnelStatusThreeStates ==
    probe # NoProbe =>
        /\ probe.result \in {"running", "stopped", "unknown"}
        /\ (~probe.listFailed /\ probe.connections >= 1) => probe.result = "running"
        /\ (~probe.listFailed /\ probe.connections = 0 /\ ~probe.processFound) =>
               probe.result = "stopped"
        /\ probe.listFailed => probe.result = "unknown"

\* The listing failed while a local process of the tunnel runs: "unknown".
C10_Witness ==
    /\ probe # NoProbe
    /\ probe.listFailed
    /\ probe.processFound
    /\ probe.result = "unknown"

\* C11: the daemon config file that run generates names the tunnel id of the
\* config, and its ingress list is one {hostname, service} rule per service,
\* in the order of config.services, followed by the catch-all rule
\* {service: "http_status:404"} as the last and only rule without hostname.
C11_IngressEndsWithCatchAll ==
    [][\A p \in Procs :
         (pc[p] = "run_generate" /\ pc'[p] = "idle" /\ yml' # yml) =>
           \E f \in yml' :
             LET ingress  == Member(f.text, "ingress").arr
                 services == config[p].services
                 n        == Len(services)
             IN  /\ f.path = configYamlPath(config[p].tunnelId)
                 /\ f \notin yml
                 /\ Member(f.text, "tunnel").str = config[p].tunnelId
                 /\ Len(ingress) = n + 1
                 /\ \A i \in 1..n :
                        ingress[i] =
                          << [key |-> "hostname", str |-> services[i].hostname],
                             [key |-> "service", str |-> services[i].service] >>
                 /\ ingress[n + 1] = << [key |-> "service", str |-> catchAll.service] >>]_vars

\* A daemon config has been generated for a tunnel with a service, and the
\* config file still lists that service.
C11_Witness ==
    \E f \in yml :
        /\ Len(Member(f.text, "ingress").arr) >= 2
        /\ Len(persisted.services) >= 1
        /\ f.path = configYamlPath(persisted.tunnelId)
        /\ last.msg \in {"running_in_background", "tunnel_ended", "error_running_tunnel"}

\* The positions that only login and only init reach.
loginPositions == {"login_overwrite", "login_daemon"}
initPositions == {"init_keep", "init_list", "init_createnew", "init_select", "init_name"}

\* C12: a command other than login that starts while the daemon binary is
\* missing halts on that check; one that starts with the binary present
\* and the certificate missing halts on the authentication check; a
\* service-scoped command that starts with both present and no tunnel in
\* the config halts on the tunnel check; the halted command has written
\* no config and called no daemon subcommand.
C12_PreconditionsInOrder ==
    [][\A p \in Procs :
         (pc[p] = "idle" /\ started' = started + 1 /\ last'.proc = p
            /\ pc'[p] \notin loginPositions) =>
           /\ ~installed =>
                  /\ last'.msg = "not_installed"
                  /\ pc'[p] = "idle" /\ file' = file /\ remote' = remote
           /\ (installed /\ ~cert) =>
                  /\ last'.msg = "not_logged_in"
                  /\ pc'[p] = "idle" /\ file' = file /\ remote' = remote
           /\ (installed /\ cert /\ tunnelIdOf(persisted) = ""
                 /\ pc'[p] \notin initPositions) =>
                  /\ last'.msg = "no_tunnel"
                  /\ pc'[p] = "idle" /\ file' = file /\ remote' = remote]_vars

\* The messages of a failed precondition, of a daemon error that ends the
\* command, of a declined confirmation and of a completed command.
preconditionFailures == {"not_installed", "not_logged_in", "no_tunnel"}
fatalToolErrors == {"create_error", "login_error", "login_may_have_failed"}
declined == {"keep_existing", "cancelled", "login_aborted", "startup_cancelled"}
completed == {"now_using", "tunnel_created", "dns_route_created", "dns_route_error",
              "service_removed", "login_complete", "no_services",
              "services_listed", "running_in_background", "tunnel_ended",
              "tunnel_stopped", "no_process_found"}

\* C13: a command that ended on a failed precondition (binary missing, not
\* authenticated, no tunnel selected) or on a daemon error it does not
\* recover from ended with exit code 1; a command that ended after a
\* declined confirmation, or after it completed, ended with exit code 0.
C13_ExitCodes ==
    last.code # -1 =>
        /\ last.msg \in preconditionFailures \cup fatalToolErrors => last.code = 1
        /\ last.msg \in declined \cup completed => last.code = 0

\* C14: a step in which the daemon's tunnel listing or tunnel creation
\* fails, or gives output that cannot be parsed, ends the command (so that
\* it calls no further daemon subcommand) and leaves the config file as
\* it was.
C14_ToolErrorAborts ==
    [][\A p \in Procs :
         (last'.proc = p
            /\ last'.msg \in {"list_error_fallback", "create_error",
                              "unable_to_parse_id"}) =>
           /\ pc'[p] = "idle"
           /\ file' = file]_vars

\* The text has no "Created tunnel ... with id <id>" in it.
noCreatedId(text) ==
    ~ \E i \in 1..Len(text), j \in 1..Len(text) :
          /\ i + 2 <= j
          /\ j + 2 <= Len(text)
          /\ text[i] = "Created" /\ text[i + 1] = "tunnel"
          /\ text[j] = "with" /\ text[j + 1] = "id"
          /\ IdPattern(text[j + 2])

\* C15: when `tunnel create` has succeeded and its output holds no id that
\* can be extracted, init reports that it is unable to parse the id and
\* ends without a save: the config file is as it was.
C15_CreationParseError ==
    [][\A p \in Procs :
         (pc[p] = "init_name" /\ pc'[p] = "idle" /\ remote' # remote
            /\ noCreatedId(daemonOutput')) =>
           /\ last' = [proc |-> p, msg |-> "unable_to_parse_id", code |-> 0]
           /\ file' = file
           /\ lastSaved' = lastSaved]_vars

\* The account has the new tunnel, init could not parse its id, and the
\* config on disk names no tunnel.
C15_Witness ==
    /\ last.msg = "unable_to_parse_id"
    /\ noCreatedId(daemonOutput)
    /\ remote # {}
    /\ tunnelIdOf(persisted) = ""

C17_ServiceKeptWhenDnsFails ==
    [][\A p \in Procs :
         /\ (pc[p] = "add_prompt" /\ pc'[p] = "add_dns") =>
                /\ file' = saveConfig(config'[p])
                /\ Len(config'[p].services) = Len(config[p].services) + 1
                /\ persisted'.services = config'[p].services
         /\ (pc[p] = "add_dns" /\ last'.proc = p) =>
                /\ file' = file
                /\ pc'[p] = "idle"
                /\ last'.code = 0
                /\ last'.msg \in {"dns_route_created", "dns_route_error"}]_vars

\* The DNS route of a service could not be created; the service is in the
\* config file.
C17_Witness ==
    /\ last.msg = "dns_route_error"
    /\ last.code = 0
    /\ lastSaved # NoConfig
    /\ persisted = lastSaved
    /\ Len(persisted.services) >= 1
    /\ started = 2

\* C18: a save writes what the saving invocation holds in memory, derived
\* from the config it loaded and from nothing else: after an add-service
\* save the file holds the services that invocation loaded plus the new
\* one, after a remove-service save those it loaded less the removed one,
\* after an init save those it loaded, whatever another invocation has
\* saved to the file in between; the file is what was saved last.
C18_LastWriterWins ==
    [][\A p \in Procs :
         (last'.proc = p /\ file' # file) =>
           /\ file' = saveConfig(lastSaved')
           /\ pc[p] = "add_prompt" =>
                  /\ Len(persisted'.services) = Len(config[p].services) + 1
                  /\ SubSeq(persisted'.services, 1, Len(config[p].services))
                        = config[p].services
           /\ pc[p] = "remove_select" =>
                  \E i \in 0..(Len(config[p].services) - 1) :
                      persisted'.services = splice(config[p].services, i)
           /\ pc[p] \in initPositions =>
                  persisted'.services = config[p].services]_vars

\* Two invocations loaded the same config and each added a service of its
\* own; the file holds the list of the one that saved last, without the
\* service of the other.
C18_Witness ==
    \E p, q \in Procs :
        /\ p # q
        /\ pc[p] = "add_dns"
        /\ pc[q] = "add_dns"
        /\ Len(config[p].services) = 1
        /\ Len(config[q].services) = 1
        /\ config[p].services[1].hostname # config[q].services[1].hostname
        /\ last.proc = q
        /\ persisted = config[q]
        /\ config[p].services[1].hostname \notin hostnamesOf(persisted)

C20_ServicesStayWithTunnel ==
    [][\A p \in Procs :
         (last'.proc = p /\ file' # file /\ pc[p] \in initPositions
            /\ tunnelIdOf(config[p]) # ""
            /\ tunnelIdOf(persisted') # tunnelIdOf(config[p])) =>
           \A i \in 1..Len(persisted'.services) :
               \A j \in 1..Len(config[p].services) :
                   persisted'.services[i] # config[p].services[j]]_vars

\* C21: a foreground run stays at the daemon call until the daemon ends or
\* the operator interrupts it; the command an interruption ends reports no
\* error and exits with code 0.
C21_InterruptIsNormalExit ==
    [][\A p \in Procs :
         (pc[p] = "run_foreground" /\ pc'[p] # "run_foreground"
            /\ observed'.kind = "daemon_end" /\ observed'.cause = "interrupt") =>
           /\ last'.proc = p
           /\ last'.code = 0
           /\ last'.msg # "error_running_tunnel"]_vars

\* C22: login --force asks for no overwrite confirmation, and on either
\* path to the daemon login the certificate is gone when the daemon login
\* is invoked; the command reports success only if the certificate exists
\* afterwards; an operator who declines the overwrite keeps the certificate
\* and the command ends without a daemon login.
C22_ForceLoginReplacesCertificate ==
    [][\A p \in Procs :
         /\ (pc[p] = "idle" /\ pc'[p] \in loginPositions /\ force'[p]) =>
                pc'[p] = "login_daemon"
         /\ (pc[p] # "login_daemon" /\ pc'[p] = "login_daemon") => ~cert'
         /\ (pc[p] = "login_daemon" /\ last'.proc = p
               /\ last'.msg = "login_complete") => cert'
         /\ (pc[p] = "login_overwrite" /\ pc'[p] = "idle") =>
                /\ cert' = cert
                /\ last'.msg = "login_aborted"]_vars

\* C23: the installation check never lets an error out: a command that
\* starts while the version probe fails, in whichever way, ends on the
\* not-installed report, and one that starts while the probe succeeds goes
\* past the check.
C23_InstalledCheckNeverThrows ==
    [][\A p \in Procs :
         (pc[p] = "idle" /\ started' = started + 1 /\ last'.proc = p) =>
           /\ ~installed =>
                  /\ last'.msg = "not_installed"
                  /\ last'.code = 1
                  /\ pc'[p] = "idle"
           /\ installed => last'.msg \notin {"not_installed", "uncaught_exception"}]_vars

\* A command has started without the daemon binary and was told so.
C23_Witness ==
    /\ ~installed
    /\ started > 0
    /\ last.msg = "not_installed"

\* The text behind the last colon of a target URL.
RECURSIVE portOf(_)
portOf(url) ==
    IF url = << >> \/ url[Len(url)] = ":" THEN << >>
    ELSE portOf(SubSeq(url, 1, Len(url) - 1)) \o << url[Len(url)] >>

\* The text is a decimal integer in 1..65535.
isPortNumber(t) ==
    /\ t # << >>
    /\ \A i \in 1..Len(t) : t[i] \in DigitChars
    /\ DigitsValue(t, 0) \in 1..65535

\* C24: a round of add-service answers that is rejected writes no config,
\* the config is written only with the report of the added service, and
\* every target URL the written config stores ends in a port that is an
\* integer in 1..65535.
C24_StoredPortsValid ==
    [][\A p \in Procs :
         (pc[p] = "add_prompt" /\ last'.proc = p) =>
           /\ last'.msg # "service_added" => file' = file
           /\ file' # file =>
                  \A i \in 1..Len(persisted'.services) :
                      isPortNumber(portOf(persisted'.services[i].service))]_vars

\* C25: a run that starts the daemon with a generated config file has
\* written that file in the same step from the service list it holds, and
\* a run whose generation failed starts the daemon by tunnel id, with no
\* config file.
C25_RunUsesFreshConfig ==
    [][\A p \in Procs :
         (pc[p] = "run_generate" /\ observed'.kind = "run" /\ last'.proc = p) =>
           /\ "config" \in DOMAIN observed'.command =>
                  /\ observed'.generated
                  /\ [path |-> observed'.command.config,
                      text |-> YAMLstringify(cloudflaredConfig(config[p]))] \in yml'
           /\ ~observed'.generated =>
                  observed'.command = [exe |-> "cloudflared tunnel",
                                       run |-> config[p].tunnelId]]_vars

\* C26: a stop command ends at most one process, it ends none whose
\* command line lacks the id of the tunnel the config selects, on either
\* platform, it ends none without --force unless the operator has
\* confirmed, and it ends none when the listing finds no process.
C26_StopKillsOnlySelectedTunnel ==
    [][\A p \in Procs :
         (pc[p] \in {"idle", "stop_confirm"} /\ last'.proc = p
            /\ processes' # processes /\ pc'[p] = "idle") =>
           LET c == IF pc[p] = "idle" THEN persisted ELSE config[p]
               ended == processes \ processes'
           IN  /\ processes' \subseteq processes
               /\ Cardinality(ended) = 1
               /\ \A q \in ended : grepTunnel(q.cmd, tunnelIdOf(c))
               /\ observed'.kind = "kill"
               /\ pc[p] = "idle" => observed'.force]_vars

\* C27: the remove-service step that removes saves the config it holds
\* less exactly the one selected entry, the others in their order, with the
\* tunnel id and name it holds; the step that is declined, and any step
\* that reports no removal, writes nothing.
C27_RemoveExactlySelected ==
    [][\A p \in Procs :
         (pc[p] = "remove_select" /\ last'.proc = p) =>
           LET old == config[p].services
               new == persisted'.services
           IN  /\ last'.msg = "service_removed" =>
                      /\ Len(new) = Len(old) - 1
                      /\ \E k \in 1..Len(old) :
                             /\ \A i \in 1..(k - 1) : new[i] = old[i]
                             /\ \A i \in k..Len(new) : new[i] = old[i + 1]
                      /\ persisted'.tunnelId = config[p].tunnelId
                      /\ persisted'.tunnelName = config[p].tunnelName
                      /\ lastSaved' = persisted'
               /\ last'.msg # "service_removed" =>
                      /\ file' = file
                      /\ lastSaved' = lastSaved
               /\ last'.msg = "cancelled" => ~force[p]]_vars

\* One of two services has been removed and the other is what the file holds.
C27_Witness ==
    /\ last.msg = "service_removed"
    /\ Len(persisted.services) = 1
    /\ persisted.services[1].hostname = <<"A", ".", "c", "o">>
    /\ lastSaved = persisted

\* C28: list-services writes no config; its JSON output gives the services
\* in the order the file holds them, its formatted output gives the same
\* services sorted by hostname, and the file holds them afterwards in the
\* order it held them before.
C28_ListServicesReadsOnly ==
    [][\A p \in Procs :
         (pc[p] = "idle" /\ last'.proc = p
            /\ observed'.kind \in {"json", "formatted"}) =>
           LET stored == persisted.services
           IN  /\ file' = file
               /\ lastSaved' = lastSaved
               /\ persisted'.services = stored
               /\ observed'.kind = "json" =>
                      /\ Len(observed'.services) = Len(stored)
                      /\ \A i \in 1..Len(stored) :
                             JSONparseService(observed'.services[i]) = stored[i]
               /\ observed'.kind = "formatted" =>
                      /\ Len(observed'.lines) = Len(stored)
                      /\ {observed'.lines[i].hostname : i \in 1..Len(stored)}
                             = hostnamesOf(persisted)
                      /\ \A i, j \in 1..Len(stored) :
                             i < j => localeCompare(observed'.lines[i].hostname,
                                                    observed'.lines[j].hostname) <= 0]_vars

\* The formatted output begins with another service than the file does.
C28_Witness ==
    /\ observed.kind = "formatted"
    /\ Len(persisted.services) = 2
    /\ observed.lines[1].hostname # persisted.services[1].hostname
    /\ observed.lines[1].hostname = <<"a", ".", "c", "o">>

\* C29: whatever JSON document the config file holds, the config object an
\* invocation has loaded carries a tunnel name, a tunnel id and a service
\* sequence, and no command ends on an exception nothing handles.
C29_LoadedConfigComplete ==
    /\ \A p \in Procs :
           "none" \notin DOMAIN config[p] =>
               {"tunnelName", "tunnelId", "services"} \subseteq DOMAIN config[p]
    /\ last.msg # "uncaught_exception"

====
